---- MODULE Spec2Model ----
(***************************************************************************)
(* Model of merge.go (package tsl): the disjointRanges composite, its      *)
(* Partition, the disjointCursor, flatten and merge.                       *)
(*                                                                         *)
(* Go slices are modelled as windows [arr, lo, len] onto backing arrays    *)
(* kept in `heap', so that append() writing through a shared backing array *)
(* is visible to every slice that aliases it.  A backing array's length is *)
(* its capacity.                                                           *)
(***************************************************************************)
EXTENDS Integers, Sequences, FiniteSets

VARIABLES heap,     \* backing arrays of []SortedRange slices
          pub,      \* ranges returned so far by merge / Partition
          snap,     \* <<composite, segment list when it was first returned>>
          last,     \* record of the most recent call and what it returned
          nops,     \* number of calls made
          cur,      \* cursor read with Next() only
          fcur,     \* cursor read with Fill() only
          mcur,     \* cursor read with Next() and Fill() interleaved
          out,      \* elements returned by Next() on cur
          fout,     \* contents written by the Fill() calls on fcur, one entry per call
          mout,     \* elements produced by mcur, in order
          done      \* [n, f, m]: cur returned nil / fcur filled 0 / mcur's last Next() was nil

vars == <<heap, pub, snap, last, nops, cur, fcur, mcur, out, fout, mout, done>>

(* ------------------------------ bounds --------------------------------- *)
MaxElem == 3      \* elements are 1..MaxElem
MaxLen == 2       \* longest primitive input range
MaxOps == 3       \* calls per behaviour
MaxBuf == 3       \* largest Fill buffer
CurElem == 4      \* elements of the ranges read through cursors

Nil == 0          \* the nil Element

(* ------------------------- external collaborators ---------------------- *)
\* Element.Less
Less(x, y) == x < y

\* LessOrder / LessOrEqualOrder
ApplyOrder(o, x, y) == IF o = "LessOrder" THEN Less(x, y) ELSE ~Less(y, x)

Orders == {"LessOrder", "LessOrEqualOrder"}

EmptyRange == [kind |-> "empty", first |-> Nil, last |-> Nil, elems |-> <<>>,
               arr |-> 0, lo |-> 0, len |-> 0]

\* a primitive sorted range with declared bounds f, l and contents s
primitiveRange(f, l, s) == [kind |-> "prim", first |-> f, last |-> l, elems |-> s,
                            arr |-> 0, lo |-> 0, len |-> 0]

useEmptyRangeIfEmpty(r) == IF r.kind = "prim" /\ Len(r.elems) = 0 THEN EmptyRange ELSE r

\* a primitive range over the non-empty sorted sequence s
RangeOf(s) == IF Len(s) = 0 THEN EmptyRange ELSE primitiveRange(s[1], s[Len(s)], s)

RECURSIVE Insert(_, _)
Insert(x, s) == IF Len(s) = 0 THEN <<x>>
                ELSE IF x < s[1] THEN <<x>> \o s
                ELSE <<s[1]>> \o Insert(x, Tail(s))

RECURSIVE SortedUnion(_, _)
\* the overlap-merge primitive's contents: every element of s and of t, ascending
SortedUnion(s, t) == IF Len(s) = 0 THEN (IF Len(t) = 0 THEN <<>>
                                         ELSE Insert(t[1], SortedUnion(s, Tail(t))))
                     ELSE Insert(s[1], SortedUnion(Tail(s), t))

(* ------------------------------ slices --------------------------------- *)
Slice(a, l, n) == [arr |-> a, lo |-> l, len |-> n]

\* s[i:j]
SubSlice(s, i, j) == Slice(s.arr, s.lo + i, j - i)

\* s[i], 0-based
At(h, s, i) == h[s.arr][s.lo + i + 1]

SliceList(h, s) == [k \in 1..s.len |-> h[s.arr][s.lo + k]]

Cap(h, s) == Len(h[s.arr]) - s.lo

\* a fresh backing array holding list
Alloc(h, list) == [h |-> Append(h, list), s |-> Slice(Len(h) + 1, 0, Len(list))]

\* append(s, x): in place when capacity allows, else onto a fresh array
AppendGo(h, s, x) ==
    IF s.len < Cap(h, s)
    THEN [h |-> [h EXCEPT ![s.arr][s.lo + s.len + 1] = x], s |-> Slice(s.arr, s.lo, s.len + 1)]
    ELSE Alloc(h, SliceList(h, s) \o <<x>>)

(* --------------------------- disjointRanges ---------------------------- *)
disjointRanges(f, l, s) == [kind |-> "comp", first |-> f, last |-> l, elems |-> <<>>,
                            arr |-> s.arr, lo |-> s.lo, len |-> s.len]

segments(d) == Slice(d.arr, d.lo, d.len)

First(r) == r.first

Last(r) == r.last

RECURSIVE Limit(_, _)

RECURSIVE limitFrom(_, _, _)
\* the loop of disjointRanges.Limit, from segment k on
limitFrom(h, d, k) ==
    IF k >= d.len THEN 0 ELSE Limit(h, At(h, segments(d), k)) + limitFrom(h, d, k + 1)

\* r.Limit()
Limit(h, r) == IF r.kind = "comp" THEN limitFrom(h, r, 0) ELSE Len(r.elems)

RECURSIVE Elems(_, _)

RECURSIVE elemsFrom(_, _, _)
elemsFrom(h, d, k) ==
    IF k >= d.len THEN <<>> ELSE Elems(h, At(h, segments(d), k)) \o elemsFrom(h, d, k + 1)

\* what a cursor opened on r now would yield
Elems(h, r) == IF r.kind = "comp" THEN elemsFrom(h, r, 0) ELSE r.elems

Ret(l, r, h) == [left |-> l, right |-> r, h |-> h, panic |-> "none"]

Panic(h, msg) == [left |-> EmptyRange, right |-> EmptyRange, h |-> h, panic |-> msg]

SelectOrd(s, e, o) == SelectSeq(s, LAMBDA x : ApplyOrder(o, x, e))

RejectOrd(s, e, o) == SelectSeq(s, LAMBDA x : ~ApplyOrder(o, x, e))

\* Partition of a primitive range
primitivePartition(h, r, e, o) ==
    Ret(RangeOf(SelectOrd(r.elems, e, o)), RangeOf(RejectOrd(r.elems, e, o)), h)

RECURSIVE Partition(_, _, _, _)

\* lines 68-85: p2 is empty; ap is the outcome of append(d.segments[0:i], p1)
rebuildLeftOnly(d, i, p1, ap) ==
    Ret(disjointRanges(d.first, Last(p1), ap.s),
        IF i + 1 < d.len
        THEN disjointRanges(First(At(ap.h, segments(d), i + 1)), d.last,
                            SubSlice(segments(d), i + 1, d.len))
        ELSE EmptyRange,
        ap.h)

\* lines 93-101, second literal: al is the outcome of append([]SortedRange{p2}, d.segments[i+1:]...)
rebuildRight(d, r1, p2, al) == Ret(r1, disjointRanges(First(p2), d.last, al.s), al.h)

\* lines 93-101: ap is the outcome of append(d.segments[0:i], p1)
rebuildBoth(d, i, p1, p2, ap) ==
    rebuildRight(d, disjointRanges(d.first, Last(p1), ap.s), p2,
                 Alloc(ap.h, <<p2>> \o SliceList(ap.h, SubSlice(segments(d), i + 1, d.len))))

\* lines 66-103: p is the outcome of r.Partition(e, o) on segment i
rebuild(d, i, p) ==
    IF p.panic # "none" THEN p
    ELSE IF Limit(p.h, p.right) = 0 THEN
        IF Last(p.left) = Nil THEN Panic(p.h, "p1.Last() is nil!")
        ELSE rebuildLeftOnly(d, i, p.left, AppendGo(p.h, SubSlice(segments(d), 0, i), p.left))
    ELSE
        IF Last(p.left) = Nil THEN Panic(p.h, "p1.Last() is nil!")
        ELSE IF First(p.right) = Nil THEN Panic(p.h, "p2.First() is nil!")
        ELSE rebuildBoth(d, i, p.left, p.right,
                         AppendGo(p.h, SubSlice(segments(d), 0, i), p.left))

\* lines 54-63: the pivot lies before segment i
splitAt(h, d, i, r) ==
    IF i = 0 THEN Panic(h, "index out of range")
    ELSE Ret(disjointRanges(d.first, Last(At(h, segments(d), i - 1)), SubSlice(segments(d), 0, i)),
             disjointRanges(First(r), d.last, SubSlice(segments(d), i, d.len)),
             h)

RECURSIVE scanSegments(_, _, _, _, _)

\* the body of the loop of disjointRanges.Partition for segment i = r
scanSegment(h, d, e, o, i, r) ==
    IF First(r) = Nil THEN Panic(h, "r.First() is nil!")
    ELSE IF Last(r) = Nil THEN Panic(h, "r.Last() is nil!")
    ELSE IF ApplyOrder(o, e, First(r)) /\ ~ApplyOrder(o, First(r), e) THEN splitAt(h, d, i, r)
    ELSE IF ApplyOrder(o, First(r), e) /\ ApplyOrder(o, e, Last(r))
         THEN rebuild(d, i, Partition(h, r, e, o))
    ELSE scanSegments(h, d, e, o, i + 1)

\* the loop of disjointRanges.Partition, from segment i on
scanSegments(h, d, e, o, i) ==
    IF i >= d.len THEN Ret(d, EmptyRange, h)
    ELSE scanSegment(h, d, e, o, i, At(h, segments(d), i))

\* disjointRanges.Partition without its leading guard
disjointPartitionNoGuard(h, d, e, o) == scanSegments(h, d, e, o, 0)

\* disjointRanges.Partition
disjointPartition(h, d, e, o) ==
    IF ~ApplyOrder(o, d.first, e) THEN Ret(EmptyRange, d, h)
    ELSE scanSegments(h, d, e, o, 0)

\* r.Partition(e, o), dispatched on the dynamic type of r
Partition(h, r, e, o) ==
    IF r.kind = "comp" THEN disjointPartition(h, r, e, o)
    ELSE IF r.kind = "prim" THEN primitivePartition(h, r, e, o)
    ELSE Ret(EmptyRange, EmptyRange, h)

(* ------------------------------- merge --------------------------------- *)
selectFirst(a, b) ==
    IF First(a) = Nil THEN First(b)
    ELSE IF First(b) = Nil THEN First(a)
    ELSE IF Less(First(a), First(b)) THEN First(a)
    ELSE First(b)

selectLast(a, b) ==
    IF Last(a) = Nil THEN Last(b)
    ELSE IF Last(b) = Nil THEN Last(a)
    ELSE IF ~Less(Last(b), Last(a)) THEN Last(b)
    ELSE Last(a)

RECURSIVE flatten(_, _)

RECURSIVE flattenLoop(_, _, _, _)
\* the for loop of flatten's last branch, at index i (1-based) with tmp built so far
flattenLoop(h, segs, i, tmp) ==
    IF i > Len(segs) THEN tmp
    ELSE IF segs[i].kind = "comp"
         THEN flattenLoop(h, segs, i + 1, tmp \o SliceList(h, segments(segs[i])))
         ELSE tmp \o flatten(h, SubSeq(segs, i, Len(segs)))

\* flatten, on the contents of its argument slice; the result is always a fresh slice
flatten(h, segs) ==
    IF Len(segs) = 0 THEN segs
    ELSE IF segs[1].kind # "comp" THEN <<segs[1]>> \o flatten(h, Tail(segs))
    ELSE flattenLoop(h, segs, 1, <<>>)

\* newMergeableRange(first, last, x, y, nil): the overlap-merge primitive
newMergeableRange(h, f, l, x, y) == primitiveRange(f, l, SortedUnion(Elems(h, x), Elems(h, y)))

MRet(r, h, fin, fout_) == [res |-> r, h |-> h, panic |-> "none", flatIn |-> fin, flatOut |-> fout_]

MPanic(h, msg) == [res |-> EmptyRange, h |-> h, panic |-> msg, flatIn |-> <<>>, flatOut |-> <<>>]

\* merge's disjoint case: a.Last() strictly before b.First()
mergeDisjoint(h, a, b) ==
    MRet(disjointRanges(First(a), selectLast(a, b), Slice(Len(h) + 1, 0, 2)),
         Append(h, <<a, b>>), <<>>, <<>>)

\* lines 246-250: fl is flatten(segments), stored in a fresh backing array
mergeComposite(h, a, b, segs, fl) ==
    MRet(disjointRanges(selectFirst(a, b), selectLast(a, b), Slice(Len(h) + 1, 0, Len(fl))),
         Append(h, fl), segs, fl)

\* lines 240-251: segs are the surviving parts
mergeSwitch(h, a, b, segs) ==
    IF Len(segs) = 0 THEN MPanic(h, "unexpected")
    ELSE IF Len(segs) = 1 THEN MRet(segs[1], h, <<>>, <<>>)
    ELSE mergeComposite(h, a, b, segs, flatten(h, segs))

\* lines 220-228
middle(h, p2, p3) ==
    IF Limit(h, p2) = 0 THEN p3
    ELSE IF Limit(h, p3) = 0 THEN p2
    ELSE useEmptyRangeIfEmpty(
             newMergeableRange(h, selectFirst(p2, p3), selectLast(p2, p3), p2, p3))

\* lines 230-238: the parts with Limit() > 0, in order
surviving(h, p1, m23, p4) == SelectSeq(<<p1, m23, p4>>, LAMBDA r : Limit(h, r) > 0)

\* lines 218-251: pa is the outcome of a.Partition, pb of b.Partition
mergePartitioned(a, b, pa, pb) ==
    IF pb.panic # "none" THEN MPanic(pb.h, pb.panic)
    ELSE mergeSwitch(pb.h, a, b,
                     surviving(pb.h, pa.left, middle(pb.h, pa.right, pb.left), pb.right))

\* line 218 on: pa is the outcome of a.Partition(b.First(), LessOrder)
mergeAfterFirst(a, b, pa) ==
    IF pa.panic # "none" THEN MPanic(pa.h, pa.panic)
    ELSE mergePartitioned(a, b, pa, Partition(pa.h, b, Last(a), "LessOrEqualOrder"))

\* merge's overlapping case
mergeOverlapping(h, a, b) == mergeAfterFirst(a, b, Partition(h, a, First(b), "LessOrder"))

merge(h, a, b) ==
    IF Limit(h, a) = 0 THEN MRet(b, h, <<>>, <<>>)
    ELSE IF Limit(h, b) = 0 THEN MRet(a, h, <<>>, <<>>)
    ELSE IF Last(a) = Nil \/ First(b) = Nil THEN MPanic(h, "nil pointer dereference")
    ELSE IF Less(Last(a), First(b)) THEN mergeDisjoint(h, a, b)
    ELSE mergeOverlapping(h, a, b)

(* --------------------------- disjointCursor ---------------------------- *)
\* c.cursor is modelled as a sequence `sub' of length 0 (nil) or 1
primitiveCursor(s) == [kind |-> "prim", elems |-> s, pos |-> 0, next |-> 0,
                       arr |-> 0, lo |-> 0, len |-> 0, sub |-> <<>>]

disjointCursor(n, c, s) == [kind |-> "disj", elems |-> <<>>, pos |-> 0, next |-> n,
                            arr |-> s.arr, lo |-> s.lo, len |-> s.len, sub |-> c]

\* the outcome of Open() indexing segments[0] of an empty segment list
PanicCursor == [kind |-> "panic", elems |-> <<>>, pos |-> 0, next |-> 0,
                arr |-> 0, lo |-> 0, len |-> 0, sub |-> <<>>]

NoCursor == primitiveCursor(<<>>)

RECURSIVE Open(_, _)

\* disjointRanges.Open, c being segments[0].Open()
disjointOpen(d, c) ==
    IF c.kind = "panic" THEN PanicCursor ELSE disjointCursor(0, <<c>>, segments(d))

\* r.Open()
Open(h, r) ==
    IF r.kind = "comp"
    THEN IF r.len = 0 THEN PanicCursor ELSE disjointOpen(r, Open(h, At(h, segments(r), 0)))
    ELSE primitiveCursor(r.elems)

\* c.cursor = c.nextCursor()
nextCursor(h, c) ==
    IF c.next + 1 < c.len
    THEN [c EXCEPT !.next = @ + 1,
                   !.sub = <<Open(h, At(h, Slice(c.arr, c.lo, c.len), c.next + 1))>>]
    ELSE [c EXCEPT !.next = @ + 1, !.sub = <<>>]

RECURSIVE CursorNext(_, _)

RECURSIVE CursorFill(_, _, _)

RECURSIVE disjointCursorNext(_, _)

\* one round of Next's loop that returns nil at the end of a segment instead of retrying
nextRoundNoRetry(h, c, r) ==
    IF r.e = Nil
    THEN [c |-> nextCursor(h, [c EXCEPT !.sub = <<r.c>>]), e |-> Nil]
    ELSE [c |-> [c EXCEPT !.sub = <<r.c>>], e |-> r.e]

\* one round of the loop of disjointCursor.Next, r being the outcome of c.cursor.Next()
nextRound(h, c, r) ==
    IF r.e = Nil
    THEN disjointCursorNext(h, nextCursor(h, [c EXCEPT !.sub = <<r.c>>]))
    ELSE [c |-> [c EXCEPT !.sub = <<r.c>>], e |-> r.e]

\* disjointCursor.Next
disjointCursorNext(h, c) ==
    IF Len(c.sub) = 0 THEN [c |-> c, e |-> Nil]
    ELSE nextRound(h, c, CursorNext(h, c.sub[1]))

\* Next() on a cursor of either kind
CursorNext(h, c) ==
    IF c.kind = "disj" THEN disjointCursorNext(h, c)
    ELSE IF c.pos < Len(c.elems)
         THEN [c |-> [c EXCEPT !.pos = @ + 1], e |-> c.elems[c.pos + 1]]
         ELSE [c |-> c, e |-> Nil]

RECURSIVE fillLoop(_, _, _, _)

\* one round of Fill's loop that moves to the next segment whether or not the buffer is full
fillRoundAlwaysAdvance(h, c, max, buf, r) ==
    fillLoop(h, nextCursor(h, [c EXCEPT !.sub = <<r.c>>]), max, buf \o r.buf)

\* one round of the loop of disjointCursor.Fill, r being the outcome of
\* c.cursor.Fill(buffer[next:max])
fillRound(h, c, max, buf, r) ==
    fillLoop(h,
             IF Len(buf \o r.buf) < max THEN nextCursor(h, [c EXCEPT !.sub = <<r.c>>])
             ELSE [c EXCEPT !.sub = <<r.c>>],
             max, buf \o r.buf)

\* the loop of disjointCursor.Fill; buf is buffer[0:next]
fillLoop(h, c, max, buf) ==
    IF Len(buf) < max /\ Len(c.sub) # 0
    THEN fillRound(h, c, max, buf, CursorFill(h, c.sub[1], max - Len(buf)))
    ELSE [c |-> c, buf |-> buf]

\* disjointCursor.Fill
disjointCursorFill(h, c, max) == fillLoop(h, c, max, <<>>)

\* the number of elements a primitive cursor writes into max slots
fillCount(c, max) == IF Len(c.elems) - c.pos < max THEN Len(c.elems) - c.pos ELSE max

\* Fill(buffer) on a cursor of either kind, len(buffer) = max
CursorFill(h, c, max) ==
    IF c.kind = "disj" THEN disjointCursorFill(h, c, max)
    ELSE [c |-> [c EXCEPT !.pos = @ + fillCount(c, max)],
          buf |-> SubSeq(c.elems, c.pos + 1, c.pos + fillCount(c, max))]

(* ----------------------------- inputs ---------------------------------- *)
\* strictly ascending sequences over 1..n of length 1..MaxLen
AscendingSeqs(n) ==
    UNION {{s \in [1..k -> 1..n] : \A i \in 1..(k - 1) : s[i] < s[i + 1]} : k \in 1..MaxLen}

InputRanges == {RangeOf(s) : s \in AscendingSeqs(MaxElem)} \cup {EmptyRange}

CursorInputs == {RangeOf(s) : s \in AscendingSeqs(CurElem)} \cup {EmptyRange}

Composites == {d \in pub : d.kind = "comp"}

NoCall == [op |-> "none", a |-> EmptyRange, b |-> EmptyRange, e |-> Nil, o |-> "LessOrder",
           aE |-> <<>>, bE |-> <<>>, res |-> <<>>, flatIn |-> <<>>, flatOut |-> <<>>,
           panic |-> "none"]

NotDone == [n |-> FALSE, f |-> FALSE, m |-> FALSE, ever |-> FALSE, again |-> FALSE,
            filled |-> FALSE]

\* the returned ranges that are new to the caller
Published(rs) == {r \in rs : r.kind # "empty"}

\* first-publication snapshots of the composites among rs, under heap h
Snapshots(h, rs) ==
    {<<d, SliceList(h, segments(d))>> :
        d \in {r \in rs : r.kind = "comp" /\ \A p \in snap : p[1] # r}}

(* ------------------------------ actions -------------------------------- *)
Init ==
    /\ heap = <<>>
    /\ pub = {}
    /\ snap = {}
    /\ last = NoCall
    /\ nops = 0
    /\ cur = NoCursor
    /\ fcur = NoCursor
    /\ mcur = NoCursor
    /\ out = <<>>
    /\ fout = <<>>
    /\ mout = <<>>
    /\ done = NotDone

CanCall == nops < MaxOps /\ last.panic = "none"

\* the state after merge(a, b) returned m
Merged(a, b, m) ==
    /\ heap' = m.h
    /\ last' = [NoCall EXCEPT !.op = "merge", !.a = a, !.b = b,
                              !.aE = Elems(heap, a), !.bE = Elems(heap, b),
                              !.res = IF m.panic = "none" THEN <<m.res>> ELSE <<>>,
                              !.flatIn = m.flatIn, !.flatOut = m.flatOut,
                              !.panic = m.panic]
    /\ pub' = IF m.panic = "none" THEN pub \cup Published({m.res}) ELSE pub
    /\ snap' = IF m.panic = "none" THEN snap \cup Snapshots(m.h, {m.res}) ELSE snap
    /\ nops' = nops + 1
    /\ UNCHANGED <<cur, fcur, mcur, out, fout, mout, done>>

\* a call of merge(a, b)
MergeOp(a, b) == CanCall /\ Merged(a, b, merge(heap, a, b))

\* the state after d.Partition(e, o) returned p
Partitioned(d, e, o, p) ==
    /\ heap' = p.h
    /\ last' = [NoCall EXCEPT !.op = "partition", !.a = d, !.e = e, !.o = o,
                              !.aE = Elems(heap, d),
                              !.res = IF p.panic = "none" THEN <<p.left, p.right>> ELSE <<>>,
                              !.panic = p.panic]
    /\ pub' = IF p.panic = "none" THEN pub \cup Published({p.left, p.right}) ELSE pub
    /\ snap' = IF p.panic = "none" THEN snap \cup Snapshots(p.h, {p.left, p.right}) ELSE snap
    /\ nops' = nops + 1
    /\ UNCHANGED <<cur, fcur, mcur, out, fout, mout, done>>

\* a call of d.Partition(e, o) on a composite
PartitionOp(d, e, o) == CanCall /\ Partitioned(d, e, o, disjointPartition(heap, d, e, o))

\* the state after d.Open() returned c
Opened(d, c) ==
    /\ cur' = c
    /\ last' = [NoCall EXCEPT !.op = "open", !.a = d,
                              !.panic = IF c.kind = "panic" THEN "index out of range"
                                        ELSE "none"]
    /\ nops' = nops + 1
    /\ UNCHANGED <<heap, pub, snap, fcur, mcur, out, fout, mout, done>>

\* a call of d.Open() on a composite
OpenOp(d) == CanCall /\ Opened(d, Open(heap, d))

Next ==
    \/ \E a \in InputRanges \cup pub, b \in InputRanges \cup pub : MergeOp(a, b)
    \/ \E d \in Composites, e \in 1..MaxElem, o \in Orders : PartitionOp(d, e, o)
    \/ \E d \in Composites : OpenOp(d)

Spec == Init /\ [][Next]_vars

(* ------------------------- reading a composite ------------------------- *)
\* the composite under the cursors
Target == last.a

\* merge(m.res, c) after an earlier merge returned m
mergeNext(m, c) == IF m.panic # "none" THEN m ELSE merge(m.h, m.res, c)

\* three fresh cursors on the composite m.res
CursorsOn(m, c) ==
    /\ m.panic = "none"
    /\ m.res.kind = "comp"
    /\ c.kind = "disj"
    /\ heap = m.h
    /\ pub = {m.res}
    /\ snap = {}
    /\ last = [NoCall EXCEPT !.op = "open", !.a = m.res]
    /\ nops = 0
    /\ cur = c
    /\ fcur = c
    /\ mcur = c
    /\ out = <<>>
    /\ fout = <<>>
    /\ mout = <<>>
    /\ done = NotDone

OpenOn(m) == CursorsOn(m, Open(m.h, m.res))

\* a composite returned by merge(merge(a, b), c), with three fresh cursors on it
InitCursor ==
    \E a \in CursorInputs, b \in CursorInputs, c \in CursorInputs :
        OpenOn(mergeNext(merge(<<>>, a, b), c))

\* the state after cur.Next() returned r
NextRead(r) ==
    /\ cur' = r.c
    /\ out' = IF r.e = Nil THEN out ELSE Append(out, r.e)
    /\ done' = [done EXCEPT !.n = (r.e = Nil)]
    /\ UNCHANGED <<heap, pub, snap, last, nops, fcur, mcur, fout, mout>>

\* cur.Next(), repeated until it returns nil
ReadNext == ~done.n /\ NextRead(CursorNext(heap, cur))

\* the state after fcur.Fill(buffer) returned r
FillRead(max, r) ==
    /\ fcur' = r.c
    /\ fout' = Append(fout, [max |-> max, buf |-> r.buf])
    /\ done' = [done EXCEPT !.f = (Len(r.buf) = 0)]
    /\ UNCHANGED <<heap, pub, snap, last, nops, cur, mcur, out, mout>>

\* fcur.Fill(buffer) with len(buffer) = max, repeated until it returns 0
ReadFill(max) == done.n /\ ~done.f /\ FillRead(max, CursorFill(heap, fcur, max))

NextCursor ==
    \/ ReadNext
    \/ \E max \in 1..MaxBuf : ReadFill(max)

SpecCursor == InitCursor /\ [][NextCursor]_vars

\* the state after mcur.Next() returned r
MixedNextRead(r) ==
    /\ mcur' = r.c
    /\ mout' = IF r.e = Nil THEN mout ELSE Append(mout, r.e)
    /\ done' = [done EXCEPT !.m = (r.e = Nil), !.ever = (@ \/ r.e = Nil),
                            !.again = (@ \/ done.ever)]
    /\ UNCHANGED <<heap, pub, snap, last, nops, cur, fcur, out, fout>>

\* mcur.Next()
MixedNext == MixedNextRead(CursorNext(heap, mcur))

\* the state after mcur.Fill(buffer) returned r
MixedFillRead(r) ==
    /\ mcur' = r.c
    /\ mout' = mout \o r.buf
    /\ done' = [done EXCEPT !.filled = (@ \/ Len(r.buf) > 0)]
    /\ UNCHANGED <<heap, pub, snap, last, nops, cur, fcur, out, fout>>

\* mcur.Fill(buffer) with len(buffer) = max
MixedFill(max) == MixedFillRead(CursorFill(heap, mcur, max))

NextMixed ==
    \/ MixedNext
    \/ \E max \in 1..MaxBuf : MixedFill(max)

SpecMixed == InitCursor /\ [][NextMixed]_vars

(* ------------------------------ properties ----------------------------- *)
IsAscending(s) == \A i \in 1..(Len(s) - 1) : ~Less(s[i + 1], s[i])

Count(s, x) == Cardinality({i \in 1..Len(s) : s[i] = x})

\* every element of s occurs in t at least as often as in s
ContainsAll(t, s) == \A i \in 1..Len(s) : Count(t, s[i]) >= Count(s, s[i])

IsPrefix(s, t) == Len(s) <= Len(t) /\ SubSeq(t, 1, Len(s)) = s

RECURSIVE FillContents(_)
\* the concatenation of the contents written by a sequence of Fill calls
FillContents(fs) == IF Len(fs) = 0 THEN <<>> ELSE fs[1].buf \o FillContents(Tail(fs))

RECURSIVE ElemsOfList(_, _)
\* the concatenated element sequence of a list of ranges
ElemsOfList(h, rs) == IF Len(rs) = 0 THEN <<>> ELSE Elems(h, rs[1]) \o ElemsOfList(h, Tail(rs))

SegmentsOf(d) == SliceList(heap, segments(d))

\* C1: the cursor opened on Merge(a, b), a and b ascending, yields an ascending
\* sequence that contains every element of a and every element of b.
C1_MergeIsSortedUnion ==
    (last.op = "merge" /\ last.panic = "none" /\ IsAscending(last.aE) /\ IsAscending(last.bE))
    => /\ IsAscending(Elems(heap, last.res[1]))
       /\ ContainsAll(Elems(heap, last.res[1]), last.aE)
       /\ ContainsAll(Elems(heap, last.res[1]), last.bE)

\* C2: r.Partition(p, order) on a composite r returns (left, right) with left exactly
\* the elements e of r with order(e, p), right exactly the others, and left followed
\* by right equal to r's element sequence.
C2_PartitionSplitsAtPivot ==
    (last.op = "partition" /\ last.panic = "none" /\ IsAscending(last.aE))
    => /\ Elems(heap, last.res[1]) = SelectOrd(last.aE, last.e, last.o)
       /\ Elems(heap, last.res[2]) = RejectOrd(last.aE, last.e, last.o)
       /\ Elems(heap, last.res[1]) \o Elems(heap, last.res[2]) = last.aE

\* C3: the segment list of every composite that was returned by an earlier call is
\* the same after each later call as when it was first returned.
C3_PublishedCompositesImmutable == \A p \in snap : SegmentsOf(p[1]) = p[2]

\* C4: in every composite produced by Merge or Partition, each segment's Last() is
\* strictly before the next segment's First().
C4_Disjointness ==
    \A d \in Composites : \A k \in 1..(d.len - 1) :
        Less(Last(SegmentsOf(d)[k]), First(SegmentsOf(d)[k + 1]))

\* C5: no composite returned by Merge or Partition has a composite as a direct segment.
C5_NoNesting ==
    \A d \in Composites : \A k \in 1..d.len : SegmentsOf(d)[k].kind # "comp"

\* C6: every composite's cached first is its first segment's First() and its cached
\* last is its last segment's Last().
C6_BoundsCorrect ==
    \A d \in Composites :
        /\ d.len >= 1
        /\ d.first = First(SegmentsOf(d)[1])
        /\ d.last = Last(SegmentsOf(d)[d.len])

\* C7: the elements returned by repeated Next() until nil equal the concatenated
\* contents of repeated Fill() calls on another fresh cursor, whatever the buffer sizes.
C7_NextEqualsFill ==
    done.n => /\ IsPrefix(FillContents(fout), out)
              /\ \A i \in 1..Len(fout) : Len(fout[i].buf) <= fout[i].max
              /\ done.f => FillContents(fout) = out

\* C7, the case of the claim: segments {1,2},{3,4}, Fill of 3 slots writes 1,2,3 and
\* the next Fill of 3 slots writes 4.
C7_Witness ==
    /\ Target.len = 2
    /\ SegmentsOf(Target)[1].elems = <<1, 2>>
    /\ SegmentsOf(Target)[2].elems = <<3, 4>>
    /\ done.n
    /\ out = <<1, 2, 3, 4>>
    /\ Len(fout) = 2
    /\ fout[1] = [max |-> 3, buf |-> <<1, 2, 3>>]
    /\ fout[2] = [max |-> 3, buf |-> <<4>>]

\* C8: Next() returns nil only after every element of every segment has been
\* produced in segment order, and once it has returned nil every later Next()
\* returns nil, whatever Fill() calls are interleaved.
C8_ExhaustionIsTerminal ==
    done.ever => /\ done.m
                 /\ mout = Elems(heap, Target)
                 /\ Len(mcur.sub) = 0

\* C8, the case of the claim: nil was returned, Next() was called again, and Fill()
\* calls that wrote elements were interleaved.
C8_Witness == done.ever /\ done.again /\ done.filled /\ Len(mout) >= 3

\* C9: no call of Merge, Partition or Open ends in a fatal abort, and every composite
\* has at least one segment and no empty segment.
C9_NoPanic ==
    /\ last.panic = "none"
    /\ \A d \in Composites :
        /\ d.len >= 1
        /\ \A k \in 1..d.len :
            /\ Limit(heap, SegmentsOf(d)[k]) > 0
            /\ First(SegmentsOf(d)[k]) # Nil
            /\ Last(SegmentsOf(d)[k]) # Nil

\* C9, the case of the claim: the overlapping case of Merge over a composite operand
\* ran through Partition and flatten and returned.
C9_Witness ==
    /\ last.op = "merge"
    /\ last.panic = "none"
    /\ last.a.kind = "comp"
    /\ last.b.kind = "comp"
    /\ Len(last.flatIn) = 3
    /\ nops = MaxOps

\* C10: flatten returns a list with no composite in it whose concatenated element
\* sequence is that of its argument.
C10_FlattenIsFlat ==
    Len(last.flatIn) > 0
    => /\ \A k \in 1..Len(last.flatOut) : last.flatOut[k].kind # "comp"
       /\ ElemsOfList(heap, last.flatOut) = ElemsOfList(heap, last.flatIn)

====
